---------------------------- MODULE Spec2Model ----------------------------
(***************************************************************************)
(* A model of maxweight.hh: the food-database loader, the weight filter    *)
(* and the two solvers of the calorie-limited weight-maximisation problem  *)
(* (dynamic programming and exhaustive search).                            *)
(*                                                                         *)
(* Numbers.  The program's doubles are modelled as fixed-point integers    *)
(* counting tenths (Tenth units per 1.0): 1.5 is 15, -1 is -10.  Every     *)
(* value the model draws has at most one decimal digit, so sums and        *)
(* comparisons are exact, as they are for such values of moderate size in  *)
(* the program.  C++ ints (the discretised budget, table indices) are      *)
(* plain integers.                                                         *)
(*                                                                         *)
(* Text.  A line of the database is a sequence of one-character strings,   *)
(* so that the splitting on '^' and the number parsing are computed from   *)
(* the characters, as std::getline and operator>> compute them.            *)
(*                                                                         *)
(* Items.  A FoodItem is a record [description, calorie, weight]; a        *)
(* FoodVector is a sequence of them.  A solver's result holds pointers to  *)
(* items of its input vector: it is modelled as the sequence of their      *)
(* positions (1-based) in that vector.                                     *)
(***************************************************************************)
EXTENDS Integers, Sequences, FiniteSets, TLC

VARIABLES
    \* load_food_database
    openable,       \* whether std::ifstream f(path) opens
    file,           \* the lines of the file, the header first
    line_number,    \* lines read so far
    result,         \* the FoodVector under construction
    load_status,    \* "start", "reading", "ok", "io_failure",
                    \* "bad_field_count", "assert_abort"
    \* filter_food_vector
    source, min_weight, max_weight, total_size,
    filter_done, filtered,
    \* dynamic_max_weight and exhaustive_max_weight
    foods, budget,
    dyn_status,     \* "idle", "ok", "length_error", "crash"
    dyn_capacity,   \* the int total_calories of dynamic_max_weight
    dyn_result,
    exh_status,     \* "idle", "ok"
    exh_result

loadVars == <<openable, file, line_number, result, load_status>>
filterVars == <<source, min_weight, max_weight, total_size, filter_done, filtered>>
solveVars == <<foods, budget, dyn_status, dyn_capacity, dyn_result,
               exh_status, exh_result>>
vars == <<loadVars, filterVars, solveVars>>

-----------------------------------------------------------------------------
(* Bounds of the model. *)

\* data lines after the header
MaxLines == 2
\* items of a solver's or the filter's input vector
MaxItems == 3
\* largest budget drawn, in whole calories
MaxBudget == 3

\* fixed-point unit: tenths
Tenth == 10

\* All sequences over S of length at most n.
SeqUpTo(S, n) == UNION {[1..k -> S] : k \in 0..n}

-----------------------------------------------------------------------------
(* Text: splitting a line and parsing a number. *)

Digits == {"0", "1", "2", "5"}

DigitVal(c) == CASE c = "0" -> 0 [] c = "1" -> 1 [] c = "2" -> 2 [] c = "5" -> 5

\* Position of the first '^' of s, 0 when it has none.
FirstCaret(s) ==
    IF \E p \in 1..Len(s) : s[p] = "^"
    THEN CHOOSE p \in 1..Len(s) : s[p] = "^" /\ \A q \in 1..(p - 1) : s[q] # "^"
    ELSE 0

\* for (std::string field; std::getline(ss, field, '^');) fields.push_back(field);
\* getline fails, ending the loop, when nothing is left to extract: a text that
\* is empty, or what follows a final '^', yields no field.
RECURSIVE GetlineFields(_)
GetlineFields(s) ==
    IF s = <<>> THEN <<>>
    ELSE LET p == FirstCaret(s)
         IN  IF p = 0 THEN <<s>>
             ELSE <<SubSeq(s, 1, p - 1)>> \o GetlineFields(SubSeq(s, p + 1, Len(s)))

\* The number of leading characters of s that are in set C.
RECURSIVE LeadingIn(_, _)
LeadingIn(s, C) ==
    IF s # <<>> /\ s[1] \in C THEN 1 + LeadingIn(Tail(s), C) ELSE 0

Drop(s, n) == SubSeq(s, n + 1, Len(s))

RECURSIVE DigitsValue(_, _)
DigitsValue(s, acc) ==
    IF s = <<>> THEN acc ELSE DigitsValue(Tail(s), acc * 10 + DigitVal(s[1]))

\* ss >> output on a stream holding `field` (operator>>(double&)):
\*   - leading whitespace is skipped; when nothing follows, the sentry fails
\*     and output is not assigned;
\*   - otherwise the longest prefix that is a number is converted and what
\*     follows it is left unread; with no such prefix the extraction fails and
\*     output is assigned 0.
\* fail: the stream's failbit; assigned: whether output was written.
StreamExtractDouble(field) ==
    LET t == Drop(field, LeadingIn(field, {" "}))
        neg == t # <<>> /\ t[1] = "-"
        u == IF neg THEN Tail(t) ELSE t
        ni == LeadingIn(u, Digits)
        v == Drop(u, ni)
        hasPoint == v # <<>> /\ v[1] = "."
        nf == IF hasPoint THEN LeadingIn(Tail(v), Digits) ELSE 0
        ipart == DigitsValue(SubSeq(u, 1, ni), 0)
        fpart == IF nf > 0 THEN DigitVal(v[2]) ELSE 0
        mag == ipart * Tenth + fpart
    IN  IF t = <<>> THEN [fail |-> TRUE, assigned |-> FALSE, value |-> 0]
        ELSE IF ni + nf = 0 THEN [fail |-> TRUE, assigned |-> TRUE, value |-> 0]
        ELSE [fail |-> FALSE, assigned |-> TRUE,
              value |-> IF neg THEN 0 - mag ELSE mag]

\* The lambda parse_dbl: the stream is tested before the extraction, when it
\* is always good, and never after it, so it returns true whatever the field
\* holds.  `prior` is what output held before the call.
parse_dbl(field, prior) ==
    LET x == StreamExtractDouble(field)
    IN  [ret |-> TRUE, output |-> IF x.assigned THEN x.value ELSE prior]

-----------------------------------------------------------------------------
(* FoodItem *)

\* The constructor's two assertions.  They are modelled as compiled in (no
\* NDEBUG): a failed one aborts the program.
FoodItemAsserts(description, calories) ==
    /\ description # <<>>
    /\ calories > 0

FoodItem(description, calories, weight_ounces) ==
    [description |-> description, calorie |-> calories, weight |-> weight_ounces]

-----------------------------------------------------------------------------
(* load_food_database *)

Join3(d, c, w) == d \o <<"^">> \o c \o <<"^">> \o w

DescTexts == {<<"s">>, <<>>}
CalTexts == {<<"2">>, <<"0">>, <<"s">>, <<>>}
WeightTexts == {<<"1", ".", "5">>, <<"-", "1">>, <<"s">>, <<" ">>}

\* Lines whose number of '^' is not two, or that end with one.
OddLines ==
    { <<>>,
      <<"s", "^", "2">>,
      <<"s", "^", "2", "^">>,
      <<"s", "^", "2", "^", "1", "^">>,
      <<"s", "^", "2", "^", "1", "^", "1">> }

DataLines == {Join3(d, c, w) : d \in DescTexts, c \in CalTexts, w \in WeightTexts}
             \cup OddLines

HeaderLines == {<<"s", "^", "s", "^", "s">>, <<"s">>}

Files == {<<>>} \cup
         {<<h>> \o ls : h \in HeaderLines, ls \in SeqUpTo(DataLines, MaxLines)}

\* Mutant: only too few fields are refused.
InvalidFieldCount_TooFew(fields) == Len(fields) < 3

\* if (fields.size() != 3) return failure;
InvalidFieldCount(fields) == Len(fields) # 3

\* What an uninitialised double may hold when it is read.
Indeterminate == {0 - 10, 0, 20}

\* std::ifstream f(path); if (!f) return failure;
OpenFile ==
    /\ load_status = "start"
    /\ load_status' = IF openable THEN "reading" ELSE "io_failure"
    /\ UNCHANGED <<openable, file, line_number, result>>
    /\ UNCHANGED <<filterVars, solveVars>>

\* One turn of the loop over the file's lines.
ReadLine ==
    /\ load_status = "reading"
    /\ line_number < Len(file)
    /\ line_number' = line_number + 1
    /\ LET line == file[line_number + 1]
           fields == GetlineFields(line)
       IN  IF line_number + 1 = 1
           THEN UNCHANGED <<result, load_status>>
           ELSE IF InvalidFieldCount(fields)
           THEN /\ load_status' = "bad_field_count"
                /\ UNCHANGED result
           ELSE \E c0 \in Indeterminate, w0 \in Indeterminate :
                  LET c == parse_dbl(fields[2], c0)
                      w == parse_dbl(fields[3], w0)
                  IN  IF c.ret /\ w.ret
                      THEN IF FoodItemAsserts(fields[1], c.output)
                           THEN /\ result' = Append(result,
                                       FoodItem(fields[1], c.output, w.output))
                                /\ UNCHANGED load_status
                           ELSE /\ load_status' = "assert_abort"
                                /\ UNCHANGED result
                      ELSE UNCHANGED <<result, load_status>>
    /\ UNCHANGED <<openable, file>>
    /\ UNCHANGED <<filterVars, solveVars>>

\* End of file: f.close(); return result;
ReturnResult ==
    /\ load_status = "reading"
    /\ line_number = Len(file)
    /\ load_status' = "ok"
    /\ UNCHANGED <<openable, file, line_number, result>>
    /\ UNCHANGED <<filterVars, solveVars>>

NextLoad == OpenFile \/ ReadLine \/ ReturnResult

-----------------------------------------------------------------------------
(* filter_food_vector *)

WeightValues == {0 - 10, 0, 10, 20}

\* The filter reads weights only: its vectors are drawn with one calorie value.
FilterItems == {FoodItem(<<"s">>, 10, w) : w \in WeightValues}

\* result->size() == static_cast<size_t>(total_size): a negative int converts
\* to a size_t above any vector's size.
SizeEqualsCast(size, n) == n >= 0 /\ size = n

\* The loop over source from position i on; res holds the positions pushed.
RECURSIVE FilterLoop(_, _, _, _, _, _)
FilterLoop(src, lo, hi, n, i, res) ==
    IF i > Len(src) THEN res
    ELSE IF src[i].weight >= lo /\ src[i].weight <= hi
         THEN LET pushed == Append(res, i)
              IN  IF SizeEqualsCast(Len(pushed), n) THEN pushed
                  ELSE FilterLoop(src, lo, hi, n, i + 1, pushed)
         ELSE FilterLoop(src, lo, hi, n, i + 1, res)

filter_food_vector(src, lo, hi, n) == FilterLoop(src, lo, hi, n, 1, <<>>)

\* A call of filter_food_vector.
Filter ==
    /\ ~filter_done
    /\ filtered' = filter_food_vector(source, min_weight, max_weight, total_size)
    /\ filter_done' = TRUE
    /\ UNCHANGED <<source, min_weight, max_weight, total_size>>
    /\ UNCHANGED <<loadVars, solveVars>>

NextFilter == Filter

-----------------------------------------------------------------------------
(* Conversions between double and int *)

\* static_cast<int>(x), and the conversion of a double to an int or to an
\* index: the fractional part is discarded (truncation toward zero).
ToInt(x) == IF x >= 0 THEN x \div Tenth ELSE 0 - ((0 - x) \div Tenth)

\* An int converted to double.
ToDouble(n) == n * Tenth

\* sum_food_vector over the items of foods at the positions in sel.
RECURSIVE SumCalories(_, _)
SumCalories(fv, sel) ==
    IF sel = <<>> THEN 0 ELSE fv[sel[1]].calorie + SumCalories(fv, Tail(sel))

RECURSIVE SumWeight(_, _)
SumWeight(fv, sel) ==
    IF sel = <<>> THEN 0 ELSE fv[sel[1]].weight + SumWeight(fv, Tail(sel))

-----------------------------------------------------------------------------
(* dynamic_max_weight *)

\* Mutant: the budget rounded half up, floor(x + 0.5).
Discretize_RoundHalfUp(total_calories_input) == (total_calories_input + 5) \div Tenth

\* int total_calories = static_cast<int>(total_calories_input);
Discretize(total_calories_input) == ToInt(total_calories_input)

\* dp[i-1][w - foods[i-1]->calorie()] + foods[i-1]->weight(): the index, a
\* double, is converted to size_t.
WeightIfTaken(prev, food, w) == prev[ToInt(ToDouble(w) - food.calorie)] + food.weight

\* Mutant: the calories truncated to an int before the comparison.
Fits_Truncated(food, w) == ~(ToInt(food.calorie) > w)

\* Whether the item fits capacity w: the negation of foods[i-1]->calorie() > w,
\* the int w converted to double.
Fits(food, w) == ~(food.calorie > ToDouble(w))

\* Mutant: an equally good alternative replaces the choice (>= for >).
Take_NonStrict(prev, food, w) ==
    Fits(food, w) /\ WeightIfTaken(prev, food, w) >= prev[w]

\* take[i][w]
Take(prev, food, w) == Fits(food, w) /\ WeightIfTaken(prev, food, w) > prev[w]

\* dp[i][w], from row i-1 (prev)
DpCell(prev, food, w) ==
    IF Take(prev, food, w) THEN WeightIfTaken(prev, food, w) ELSE prev[w]

\* Rows 0..i of dp, as the sequence <<dp[0], ..., dp[i]>>.
RECURSIVE DpRows(_, _, _)
DpRows(fv, cap, i) ==
    IF i = 0 THEN << [w \in 0..cap |-> 0] >>
    ELSE LET rows == DpRows(fv, cap, i - 1)
             prev == rows[i]
         IN  Append(rows, [w \in 0..cap |-> DpCell(prev, fv[i], w)])

\* Mutant: the calories truncated to an int before the subtraction.
Consume_Truncated(calorie_remaining, food) == calorie_remaining - ToInt(food.calorie)

\* calorie_remaining -= foods[i-1]->calorie(): computed in double, stored in int.
Consume(calorie_remaining, food) == ToInt(ToDouble(calorie_remaining) - food.calorie)

\* The reconstruction loop from item i down to 1; res is the result so far.
RECURSIVE Reconstruct(_, _, _, _, _)
Reconstruct(fv, rows, i, calorie_remaining, res) ==
    IF i = 0 THEN res
    ELSE IF Take(rows[i], fv[i], calorie_remaining)
         THEN Reconstruct(fv, rows, i - 1, Consume(calorie_remaining, fv[i]),
                          <<i>> \o res)
         ELSE Reconstruct(fv, rows, i - 1, calorie_remaining, res)

\* dynamic_max_weight for a capacity of at least 0.
dynamic_max_weight(fv, total_calories_input) ==
    LET total_calories == Discretize(total_calories_input)
        rows == DpRows(fv, total_calories, Len(fv))
    IN  Reconstruct(fv, rows, Len(fv), total_calories, <<>>)

\* The increasing sequences of positions of a vector of n items.
RECURSIVE Increasing(_)
Increasing(n) ==
    IF n = 0 THEN {<<>>}
    ELSE LET lower == Increasing(n - 1)
         IN  lower \cup {Append(sel, n) : sel \in lower}

-----------------------------------------------------------------------------
(* exhaustive_max_weight *)

RECURSIVE Pow2(_)
Pow2(n) == IF n = 0 THEN 1 ELSE 2 * Pow2(n - 1)

\* i & (1ULL << j), with j counted from 0
BitSet(i, j) == (i \div Pow2(j)) % 2 = 1

\* current_subset of mask i: the positions j + 1 with bit j set, from j on.
RECURSIVE SubsetOfMask(_, _, _)
SubsetOfMask(i, j, n) ==
    IF j = n THEN <<>>
    ELSE (IF BitSet(i, j) THEN <<j + 1>> ELSE <<>>) \o SubsetOfMask(i, j + 1, n)

\* current_calories <= total_calorie && current_weight > best_weight
Better(fv, total_calorie, current_subset, best_weight) ==
    /\ SumCalories(fv, current_subset) <= total_calorie
    /\ SumWeight(fv, current_subset) > best_weight

\* The loop over the masks from i on.
RECURSIVE ExhaustiveLoop(_, _, _, _, _)
ExhaustiveLoop(fv, total_calorie, i, best_subset, best_weight) ==
    IF i = Pow2(Len(fv)) THEN best_subset
    ELSE LET current_subset == SubsetOfMask(i, 0, Len(fv))
         IN  IF Better(fv, total_calorie, current_subset, best_weight)
             THEN ExhaustiveLoop(fv, total_calorie, i + 1, current_subset,
                                 SumWeight(fv, current_subset))
             ELSE ExhaustiveLoop(fv, total_calorie, i + 1, best_subset, best_weight)

exhaustive_max_weight(fv, total_calorie) ==
    ExhaustiveLoop(fv, total_calorie, 0, <<>>, 0)

-----------------------------------------------------------------------------
(* The solvers' inputs and actions *)

CalorieValues == {10, 15, 20}

\* Items as the constructor admits them: calories above 0, any weight, a
\* weight of zero and a negative one among them.
SolveItems ==
    {FoodItem(<<"s">>, c, w) : c \in CalorieValues, w \in {10, 20}}
    \cup {FoodItem(<<"s">>, 10, 0), FoodItem(<<"s">>, 15, 0 - 10)}

\* Budgets: negative ones, fractional ones and the whole ones up to MaxBudget.
BudgetValues ==
    {0 - 20, 0 - 10, 0 - 5, 5, 14, 15, 17, 25} \cup {ToDouble(b) : b \in 0..MaxBudget}

\* A call of dynamic_max_weight(foods, budget).
SolveDynamic ==
    /\ dyn_status = "idle"
    /\ dyn_capacity' = Discretize(budget)
    /\ LET total_calories == Discretize(budget)
       IN  \/ \* total_calories + 1 < 0 converts to a size_t above max_size():
              \* the vector's constructor throws std::length_error
              /\ total_calories + 1 < 0
              /\ dyn_status' = "length_error"
              /\ dyn_result' = <<>>
           \/ \* the rows are empty; with no item nothing reads them
              /\ total_calories + 1 = 0
              /\ Len(foods) = 0
              /\ dyn_status' = "ok"
              /\ dyn_result' = <<>>
           \/ \* the rows are empty and take[i][-1] is read out of range:
              \* undefined behaviour, a crash or any bits
              /\ total_calories + 1 = 0
              /\ Len(foods) > 0
              /\ \/ dyn_status' = "crash" /\ dyn_result' = <<>>
                 \/ dyn_status' = "ok" /\ dyn_result' \in Increasing(Len(foods))
           \/ /\ total_calories >= 0
              /\ dyn_status' = "ok"
              /\ dyn_result' = dynamic_max_weight(foods, budget)
    /\ UNCHANGED <<foods, budget, exh_status, exh_result>>
    /\ UNCHANGED <<loadVars, filterVars>>

\* A call of exhaustive_max_weight(foods, budget).
SolveExhaustive ==
    /\ exh_status = "idle"
    /\ exh_status' = "ok"
    /\ exh_result' = exhaustive_max_weight(foods, budget)
    /\ UNCHANGED <<foods, budget, dyn_status, dyn_capacity, dyn_result>>
    /\ UNCHANGED <<loadVars, filterVars>>

NextSolve == SolveDynamic \/ SolveExhaustive

-----------------------------------------------------------------------------
(* Specifications *)

\* Each operation is checked from its own initial states, the variables of
\* the other operations at rest.

\* load_food_database(path): the file opens or not, and holds any of Files.
InitLoad ==
    /\ \/ openable = FALSE /\ file = <<>>
       \/ openable = TRUE /\ file \in Files
    /\ line_number = 0
    /\ result = <<>>
    /\ load_status = "start"
    /\ source = <<>>
    /\ min_weight = 0
    /\ max_weight = 0
    /\ total_size = 0
    /\ filter_done = FALSE
    /\ filtered = <<>>
    /\ foods = <<>>
    /\ budget = 0
    /\ dyn_status = "idle"
    /\ dyn_capacity = 0
    /\ dyn_result = <<>>
    /\ exh_status = "idle"
    /\ exh_result = <<>>

\* filter_food_vector(source, min_weight, max_weight, total_size)
InitFilter ==
    /\ openable = FALSE
    /\ file = <<>>
    /\ line_number = 0
    /\ result = <<>>
    /\ load_status = "start"
    /\ source \in SeqUpTo(FilterItems, MaxItems)
    /\ min_weight \in WeightValues
    /\ max_weight \in WeightValues
    /\ total_size \in (0 - 1)..(MaxItems + 1)
    /\ filter_done = FALSE
    /\ filtered = <<>>
    /\ foods = <<>>
    /\ budget = 0
    /\ dyn_status = "idle"
    /\ dyn_capacity = 0
    /\ dyn_result = <<>>
    /\ exh_status = "idle"
    /\ exh_result = <<>>

\* The two solvers called on the same vector and budget.
InitSolve ==
    /\ openable = FALSE
    /\ file = <<>>
    /\ line_number = 0
    /\ result = <<>>
    /\ load_status = "start"
    /\ source = <<>>
    /\ min_weight = 0
    /\ max_weight = 0
    /\ total_size = 0
    /\ filter_done = FALSE
    /\ filtered = <<>>
    /\ foods \in SeqUpTo(SolveItems, MaxItems)
    /\ budget \in BudgetValues
    /\ dyn_status = "idle"
    /\ dyn_capacity = 0
    /\ dyn_result = <<>>
    /\ exh_status = "idle"
    /\ exh_result = <<>>

SpecLoad == InitLoad /\ [][NextLoad]_vars
SpecFilter == InitFilter /\ [][NextFilter]_vars
SpecSolve == InitSolve /\ [][NextSolve]_vars

Init == InitLoad \/ InitFilter \/ InitSolve

Next == NextLoad \/ NextFilter \/ NextSolve

Spec == Init /\ [][Next]_vars

-----------------------------------------------------------------------------
(* Properties of the solvers, under SpecSolve *)

IntegerCalories(fv) == \A i \in 1..Len(fv) : fv[i].calorie % Tenth = 0

BothReturned == dyn_status = "ok" /\ exh_status = "ok"

\* The least int not below the double x.
CeilInt(x) == 0 - ((0 - x) \div Tenth)

\* The greatest int not above the double x.
FloorInt(x) == x \div Tenth

\* fv with every calorie value replaced by cost(calorie), an int.
WithCost(fv, cost(_)) ==
    [i \in 1..Len(fv) |-> [fv[i] EXCEPT !.calorie = ToDouble(cost(fv[i].calorie))]]

\* The feasible selections of fv within a calorie limit, and the best weight
\* among them, by enumeration.
Feasible(fv, limit) ==
    {sel \in Increasing(Len(fv)) : SumCalories(fv, sel) <= limit}

BestWeight(fv, limit) ==
    LET weights == {SumWeight(fv, sel) : sel \in Feasible(fv, limit)}
    IN  CHOOSE b \in weights : \A w \in weights : w <= b

Optimal(fv, limit) ==
    LET best == BestWeight(fv, limit)
    IN  {sel \in Feasible(fv, limit) : SumWeight(fv, sel) = best}

\* The bit mask of a selection: bit i-1 for position i.
RECURSIVE MaskOf(_)
MaskOf(sel) == IF sel = <<>> THEN 0 ELSE Pow2(sel[1] - 1) + MaskOf(Tail(sel))

MinMaskOptimal(fv, limit) ==
    LET optimal == Optimal(fv, limit)
    IN  CHOOSE sel \in optimal : \A other \in optimal : MaskOf(sel) <= MaskOf(other)

\* Whether the call of dynamic_max_weight read its table out of range.
OutOfRangeRead == dyn_status # "idle" /\ dyn_capacity = 0 - 1 /\ Len(foods) > 0

\* C1: for integer calories and every budget, solve_dynamic returns a set and
\* its total weight equals that of the set solve_exhaustive returns.  Stated
\* for the calls that read nothing out of range, whose outcome is defined.
C1_EqualTotalWeight ==
    (dyn_status # "idle" /\ exh_status # "idle" /\ IntegerCalories(foods)
     /\ ~OutOfRangeRead)
        => /\ dyn_status = "ok"
           /\ SumWeight(foods, dyn_result) = SumWeight(foods, exh_result)

\* C2 as stated: for every budget, negative ones included, each solver's
\* returned set has aggregate calories at most the budget.  Stated for the
\* calls that read nothing out of range, whose outcome is defined.
C2_FeasibleForEveryBudget ==
    /\ (dyn_status = "ok" /\ ~OutOfRangeRead)
           => SumCalories(foods, dyn_result) <= budget
    /\ exh_status = "ok" => SumCalories(foods, exh_result) <= budget

\* C2 amended: for every budget of at least 0, integer or not, each solver's
\* returned set has aggregate calories at most the budget.
C2_FeasibleForNonNegativeBudget ==
    budget >= 0 =>
        /\ dyn_status = "ok" => SumCalories(foods, dyn_result) <= budget
        /\ exh_status = "ok" => SumCalories(foods, exh_result) <= budget

\* C2, its case: both solvers returned a non-empty set for a non-integer budget, the
\* dynamic one with an item of non-integer calories in it.
C2_Witness ==
    /\ BothReturned
    /\ budget > 0 /\ budget % Tenth # 0
    /\ exh_result # <<>>
    /\ \E k \in 1..Len(dyn_result) : foods[dyn_result[k]].calorie % Tenth # 0

\* C6 as stated: the budget x is discretised to C = floor(x + 0.5).
C6_RoundsHalfUp ==
    dyn_status # "idle" => dyn_capacity = FloorInt(budget + 5)

\* C6 amended: the budget x is discretised by truncation toward zero (C is
\* the integer part of x), and for C >= 0 the returned set is a best set of
\* the knapsack over capacity C, every item costing its calories rounded up.
C6_TruncatesTowardZero ==
    dyn_status # "idle" =>
        /\ budget >= 0 => /\ ToDouble(dyn_capacity) <= budget
                          /\ budget < ToDouble(dyn_capacity + 1)
        /\ budget < 0 => /\ ToDouble(dyn_capacity) >= budget
                         /\ budget > ToDouble(dyn_capacity - 1)
        /\ dyn_capacity >= 0 =>
             /\ dyn_status = "ok"
             /\ dyn_result \in Optimal(WithCost(foods, CeilInt), ToDouble(dyn_capacity))

\* C6, its case: a budget with a fractional part of .5 or more was discretised and a
\* non-empty set returned.
C6_Witness ==
    /\ dyn_status = "ok"
    /\ budget > 0 /\ budget % Tenth >= 5
    /\ dyn_result # <<>>

\* C7: solve_dynamic has no error condition: once called it has returned a
\* set, for every budget.
C7_NoErrorCondition == dyn_status \in {"idle", "ok"}

-----------------------------------------------------------------------------
(* Properties of the filter, under SpecFilter *)

\* The positions of src, increasing, whose weight lies in [lo, hi].
RECURSIVE InRange(_, _, _, _)
InRange(src, lo, hi, i) ==
    IF i > Len(src) THEN <<>>
    ELSE (IF lo <= src[i].weight /\ src[i].weight <= hi THEN <<i>> ELSE <<>>)
         \o InRange(src, lo, hi, i + 1)

FirstN(s, n) == SubSeq(s, 1, IF n < Len(s) THEN n ELSE Len(s))

\* C5: for every maximum size N >= 0, N = 0 included, filter returns the first
\* N items in range, in source order (all of them when there are fewer), so
\* never more than N.
C5_FirstNInRange ==
    (filter_done /\ total_size >= 0) =>
        /\ filtered = FirstN(InRange(source, min_weight, max_weight, 1), total_size)
        /\ Len(filtered) <= total_size

-----------------------------------------------------------------------------
(* Properties of the loader, under SpecLoad *)

\* The fields of a line split on '^': one more than its carets.
RECURSIVE CaretCount(_)
CaretCount(s) ==
    IF s = <<>> THEN 0 ELSE (IF s[1] = "^" THEN 1 ELSE 0) + CaretCount(Tail(s))

SplitFieldCount(line) == CaretCount(line) + 1

\* The same, an empty last field not counted.
CountedFieldCount(line) ==
    IF line = <<>> \/ line[Len(line)] = "^"
    THEN SplitFieldCount(line) - 1
    ELSE SplitFieldCount(line)

\* The data lines read so far.
DataLinesRead == 2..line_number

FailsToParse(field) == StreamExtractDouble(field).fail

\* A data line of 3 fields whose calories or weight field fails to parse.
Unparsable(line) ==
    LET fields == GetlineFields(line)
    IN  /\ Len(fields) = 3
        /\ FailsToParse(fields[2]) \/ FailsToParse(fields[3])

\* The items of the data lines 2..n that parse, in file order.
RECURSIVE ParsedItems(_, _)
ParsedItems(f, n) ==
    IF n < 2 THEN <<>>
    ELSE LET fields == GetlineFields(f[n])
         IN  ParsedItems(f, n - 1) \o
             (IF Unparsable(f[n]) THEN <<>>
              ELSE << FoodItem(fields[1], StreamExtractDouble(fields[2]).value,
                               StreamExtractDouble(fields[3]).value) >>)

\* Whether a 3-field data line read so far had a blank calories or weight
\* field, which leaves the double it is parsed into uninitialised.
IndeterminateRead ==
    \E i \in DataLinesRead :
        LET fields == GetlineFields(file[i])
        IN  /\ Len(fields) = 3
            /\ \/ ~StreamExtractDouble(fields[2]).assigned
               \/ ~StreamExtractDouble(fields[3]).assigned

\* C4: a 3-field line whose calories or weight field fails to parse is
\* omitted and loading continues: the vector holds exactly the items of the
\* other lines read, in file order, and such a line never stops the load.
\* Stated for the loads that read no uninitialised value.
C4_UnparsableLineSkipped ==
    ~IndeterminateRead =>
        /\ load_status \in {"reading", "ok"}
               => result = ParsedItems(file, line_number)
        /\ (line_number \in DataLinesRead /\ Unparsable(file[line_number]))
               => load_status \in {"reading", "ok"}

\* C8: every item of the vector a load returns has a non-empty description,
\* calories above 0 and a weight of at least 0.  Stated for the loads that
\* read no uninitialised value.
C8_ItemInvariant ==
    (load_status = "ok" /\ ~IndeterminateRead) =>
        \A k \in 1..Len(result) :
            /\ result[k].description # <<>>
            /\ result[k].calorie > 0
            /\ result[k].weight >= 0

=============================================================================
